---- MODULE Spec2Model ----
(***************************************************************************)
(* Model of packages/utils/src/baggage.ts (the baggage protocol engine)    *)
(* and of the trace-context correlator exercised by                        *)
(* packages/integration-tests/suites/tracing/browsertracing/meta/test.ts.  *)
(*                                                                         *)
(* A JavaScript string is a sequence of pieces.  A piece is one character, *)
(* or a run of two or more characters z (the filler of a long third-party  *)
(* entry), so that a string of 8192 characters is a short sequence.  No    *)
(* input puts a character z next to a run, which keeps equal strings equal *)
(* as sequences.  The value `undefined` is the one-element sequence        *)
(* Undefined, which no string equals.                                      *)
(***************************************************************************)
EXTENDS Integers, Sequences, FiniteSets

\* ------------------------------------------------------------------------
\* Characters, and the two URI conversions of the ECMAScript runtime
\* ------------------------------------------------------------------------

Undefined == << "<undefined>" >>

\* String(undefined), the text every string conversion of undefined yields
UndefinedText == << "u", "n", "d", "e", "f", "i", "n", "e", "d" >>

StringOf(v) == IF v = Undefined THEN UndefinedText ELSE v

\* printable ASCII, code 32 (space) to code 126 (~); the double quote (34),
\* the backslash (92) and the grave accent (96) are written <quot>, <bsl>
\* and <grave>
Ascii ==
  << " ", "!", "<quot>", "#", "$", "%", "&", "'", "(", ")", "*", "+", ",", "-", ".", "/",
     "0", "1", "2", "3", "4", "5", "6", "7", "8", "9", ":", ";", "<", "=", ">", "?",
     "@", "A", "B", "C", "D", "E", "F", "G", "H", "I", "J", "K", "L", "M", "N", "O",
     "P", "Q", "R", "S", "T", "U", "V", "W", "X", "Y", "Z", "[", "<bsl>", "]", "^", "_",
     "<grave>", "a", "b", "c", "d", "e", "f", "g", "h", "i", "j", "k", "l", "m", "n", "o",
     "p", "q", "r", "s", "t", "u", "v", "w", "x", "y", "z", "{", "|", "}", "~" >>

CharCode(c) == 31 + (CHOOSE i \in 1..Len(Ascii) : Ascii[i] = c)

\* a decoded byte outside printable ASCII (a control character)
ControlChar == "<ctl>"

FromCharCode(n) == IF n \in 32..126 THEN Ascii[n - 31] ELSE ControlChar

\* the characters written with more than one letter here
StandIns == { "<quot>", "<bsl>", "<grave>", ControlChar }

\* the number of characters of a piece
Width(c) == IF c \in StandIns THEN 1 ELSE Len(c)

RECURSIVE LengthFrom(_, _)
LengthFrom(s, i) == IF i > Len(s) THEN 0 ELSE Width(s[i]) + LengthFrom(s, i + 1)

\* s.length
Length(s) == LengthFrom(s, 1)

RECURSIVE Run(_)
Run(n) ==
  IF n = 0 THEN ""
  ELSE IF n % 2 = 1 THEN "z" \o Run(n - 1)
  ELSE LET half == Run(n \div 2) IN half \o half

Digits == { "0", "1", "2", "3", "4", "5", "6", "7", "8", "9" }

Letters == { Ascii[i] : i \in (34..59) \cup (66..91) }

\* the characters encodeURIComponent leaves alone
Unreserved == Letters \cup Digits \cup { "-", "_", ".", "!", "~", "*", "'", "(", ")" }

HexUpper == << "0", "1", "2", "3", "4", "5", "6", "7", "8", "9", "A", "B", "C", "D", "E", "F" >>

HexLower == << "0", "1", "2", "3", "4", "5", "6", "7", "8", "9", "a", "b", "c", "d", "e", "f" >>

IsHex(c) == \E i \in 1..16 : HexUpper[i] = c \/ HexLower[i] = c

HexVal(c) == (CHOOSE i \in 1..16 : HexUpper[i] = c \/ HexLower[i] = c) - 1

EncodeChar(c) ==
  IF c \in Unreserved \/ Width(c) > 1
    THEN << c >>
    ELSE << "%", HexUpper[(CharCode(c) \div 16) + 1], HexUpper[(CharCode(c) % 16) + 1] >>

RECURSIVE EncodeFrom(_, _)
EncodeFrom(s, i) ==
  IF i > Len(s) THEN << >> ELSE EncodeChar(s[i]) \o EncodeFrom(s, i + 1)

\* encodeURIComponent(v): v is converted to a string first
encodeURIComponent(v) == EncodeFrom(StringOf(v), 1)

\* the outcome of a call that may throw: a value, or the URIError thrown
Returned(s) == [ok |-> TRUE, str |-> s]

URIError == [ok |-> FALSE, str |-> << >>]

RECURSIVE DecodeFrom(_, _)
DecodeFrom(s, i) ==
  IF i > Len(s) THEN Returned(<< >>)
  ELSE IF s[i] # "%"
    THEN LET r == DecodeFrom(s, i + 1)
         IN  IF r.ok THEN Returned(<< s[i] >> \o r.str) ELSE URIError
  ELSE IF i + 2 > Len(s) \/ ~IsHex(s[i + 1]) \/ ~IsHex(s[i + 2])
    THEN URIError
  ELSE LET b == 16 * HexVal(s[i + 1]) + HexVal(s[i + 2])
           r == DecodeFrom(s, i + 3)
       IN  \* a byte of 0x80 and above starts or continues a multi-byte
           \* UTF-8 sequence; alone it is malformed (no input of the model
           \* holds a well-formed multi-byte sequence)
           IF b >= 128 \/ ~r.ok THEN URIError
           ELSE Returned(<< FromCharCode(b) >> \o r.str)

\* decodeURIComponent(v): v is converted to a string first
decodeURIComponent(v) == DecodeFrom(StringOf(v), 1)

\* ------------------------------------------------------------------------
\* String.prototype.split with a one-character separator, and its uses
\* ------------------------------------------------------------------------

SepPositions(s, c) == { i \in 1..Len(s) : s[i] = c }

NthPosition(P, k) == CHOOSE p \in P : Cardinality({ q \in P : q < p }) = k - 1

Split(s, c) ==
  LET P == SepPositions(s, c)
      n == Cardinality(P)
      first(k) == IF k = 1 THEN 1 ELSE NthPosition(P, k - 1) + 1
      last(k)  == IF k = n + 1 THEN Len(s) ELSE NthPosition(P, k) - 1
  IN  [ k \in 1..(n + 1) |-> SubSeq(s, first(k), last(k)) ]

\* parts[i], which is undefined past the end of the array
At(parts, i) == IF i \in 1..Len(parts) THEN parts[i] ELSE Undefined

StartsWith(s, p) == Len(s) >= Len(p) /\ SubSeq(s, 1, Len(p)) = p

\* ------------------------------------------------------------------------
\* baggage.ts
\* ------------------------------------------------------------------------

SENTRY_BAGGAGE_KEY_PREFIX == << "s", "e", "n", "t", "r", "y", "-" >>

\* /^sentry-/.test(key)
SENTRY_BAGGAGE_KEY_PREFIX_REGEX(key) == StartsWith(key, SENTRY_BAGGAGE_KEY_PREFIX)

MAX_BAGGAGE_STRING_LENGTH == 8192

\* a Baggage is the pair [BaggageObj, string]: obj is baggage[0], its own
\* properties as <<key, value>> pairs in Object.keys order; str is baggage[1]
NoBaggage == [obj |-> << >>, str |-> Undefined]

Falsy(s) == s = Undefined \/ s = << >>

HasKey(obj, k) == \E i \in 1..Len(obj) : obj[i][1] = k

ObjGet(obj, k) ==
  IF HasKey(obj, k) THEN obj[CHOOSE i \in 1..Len(obj) : obj[i][1] = k][2] ELSE Undefined

\* a < b for digit strings of one length
DigitsLess(a, b) ==
  \E i \in 1..Len(a) :
    /\ \A j \in 1..(i - 1) : a[j] = b[j]
    /\ HexVal(a[i]) < HexVal(b[i])

\* numeric a < b for canonical digit strings
IndexLess(a, b) == Len(a) < Len(b) \/ (Len(a) = Len(b) /\ DigitsLess(a, b))

\* 2^32 - 1, the first integer that is not an array index
IndexLimit == << "4", "2", "9", "4", "9", "6", "7", "2", "9", "5" >>

\* a canonical array index: such keys come first in Object.keys, ascending
IsArrayIndex(k) ==
  /\ Len(k) >= 1
  /\ \A i \in 1..Len(k) : k[i] \in Digits
  /\ (Len(k) = 1 \/ k[1] # "0")
  /\ IndexLess(k, IndexLimit)

\* obj[k] = v on an ordinary object: an own key keeps its place, a new array
\* index goes among the array indices, any other new key goes last
ObjSet(obj, k, v) ==
  IF HasKey(obj, k)
    THEN [ i \in 1..Len(obj) |-> IF obj[i][1] = k THEN << k, v >> ELSE obj[i] ]
  ELSE IF IsArrayIndex(k)
    THEN LET p == Cardinality({ i \in 1..Len(obj) :
                      /\ IsArrayIndex(obj[i][1])
                      /\ IndexLess(obj[i][1], k) })
         IN  SubSeq(obj, 1, p) \o << << k, v >> >> \o SubSeq(obj, p + 1, Len(obj))
  ELSE Append(obj, << k, v >>)

RECURSIVE ObjFromEntries(_, _)
ObjFromEntries(entries, n) ==
  IF n = 0 THEN << >>
  ELSE ObjSet(ObjFromEntries(entries, n - 1), entries[n][1], entries[n][2])

createBaggage(initItems, baggageString) ==
  [obj |-> ObjFromEntries(initItems, Len(initItems)),
   str |-> IF baggageString = Undefined THEN << >> ELSE baggageString]

getBaggageValue(baggage, key) == ObjGet(baggage.obj, key)

setBaggageValue(baggage, key, value) ==
  [baggage EXCEPT !.obj = ObjSet(baggage.obj, key, value)]

isBaggageEmpty(baggage) == Len(baggage.obj) = 0

getThirdPartyBaggage(baggage) == baggage.str

\* the reducer without its length test
SerializeStepNoLimit(prev, key, val) ==
  LET baggageEntry ==
        SENTRY_BAGGAGE_KEY_PREFIX \o encodeURIComponent(key) \o << "=" >> \o encodeURIComponent(val)
  IN  IF prev = << >> THEN baggageEntry ELSE prev \o << "," >> \o baggageEntry

\* the reducer with the length test off by one
SerializeStepOffByOne(prev, key, val) ==
  LET newVal == SerializeStepNoLimit(prev, key, val)
  IN  IF Length(newVal) >= MAX_BAGGAGE_STRING_LENGTH THEN prev ELSE newVal

\* the reducer of serializeBaggage
SerializeStep(prev, key, val) ==
  LET baggageEntry ==
        SENTRY_BAGGAGE_KEY_PREFIX \o encodeURIComponent(key) \o << "=" >> \o encodeURIComponent(val)
      newVal == IF prev = << >> THEN baggageEntry ELSE prev \o << "," >> \o baggageEntry
  IN  IF Length(newVal) > MAX_BAGGAGE_STRING_LENGTH THEN prev ELSE newVal

RECURSIVE SerializeReduce(_, _)
SerializeReduce(baggage, n) ==
  IF n = 0 THEN baggage.str
  ELSE SerializeStep(SerializeReduce(baggage, n - 1), baggage.obj[n][1], baggage.obj[n][2])

serializeBaggage(baggage) == SerializeReduce(baggage, Len(baggage.obj))

\* the outcome of parseBaggageString: a Baggage, or the URIError thrown
Parsed(b) == [ok |-> TRUE, baggage |-> b]

ParseThrew == [ok |-> FALSE, baggage |-> NoBaggage]

\* the reducer that also keeps a first-party segment in the remainder
ParseStepKeepsAll(acc, curr) ==
  LET parts == Split(curr, "=")
      key == At(parts, 1)
      val == At(parts, 2)
      str == IF acc.baggage.str = << >> THEN curr ELSE acc.baggage.str \o << "," >> \o curr
  IN  IF SENTRY_BAGGAGE_KEY_PREFIX_REGEX(key)
        THEN LET baggageKey == decodeURIComponent(At(Split(key, "-"), 2))
                 baggageVal == decodeURIComponent(val)
             IN  IF baggageKey.ok /\ baggageVal.ok
                   THEN Parsed([obj |-> ObjSet(acc.baggage.obj, baggageKey.str, baggageVal.str),
                                str |-> str])
                   ELSE ParseThrew
        ELSE Parsed([acc.baggage EXCEPT !.str = str])

\* the reducer of parseBaggageString
ParseStep(acc, curr) ==
  LET parts == Split(curr, "=")
      key == At(parts, 1)
      val == At(parts, 2)
  IN  IF SENTRY_BAGGAGE_KEY_PREFIX_REGEX(key)
        THEN LET baggageKey == decodeURIComponent(At(Split(key, "-"), 2))
                 baggageVal == decodeURIComponent(val)
             IN  IF baggageKey.ok /\ baggageVal.ok
                   THEN Parsed([acc.baggage EXCEPT
                                  !.obj = ObjSet(acc.baggage.obj, baggageKey.str, baggageVal.str)])
                   ELSE ParseThrew
        ELSE Parsed([acc.baggage EXCEPT
                       !.str = IF acc.baggage.str = << >>
                                 THEN curr
                                 ELSE acc.baggage.str \o << "," >> \o curr])

RECURSIVE ParseReduce(_, _)
ParseReduce(segments, n) ==
  IF n = 0 THEN Parsed([obj |-> << >>, str |-> << >>])
  ELSE LET acc == ParseReduce(segments, n - 1)
       IN  IF acc.ok THEN ParseStep(acc, segments[n]) ELSE ParseThrew

parseBaggageString(inputBaggageString) ==
  LET segments == Split(inputBaggageString, ",")
  IN  ParseReduce(segments, Len(segments))

\* the merge that takes the header as it is for the third-party remainder
MergeFinalBaggageWholeHeader(incomingBaggage, headerBaggageString) ==
  IF incomingBaggage = NoBaggage /\ Falsy(headerBaggageString)
    THEN Parsed(NoBaggage)
  ELSE IF ~Falsy(headerBaggageString) /\ ~parseBaggageString(headerBaggageString).ok
    THEN ParseThrew
  ELSE Parsed(createBaggage(
         IF incomingBaggage = NoBaggage THEN << >> ELSE incomingBaggage.obj,
         IF Falsy(headerBaggageString) THEN << >> ELSE headerBaggageString))

\* the Baggage mergeAndSerializeBaggage serializes (finalBaggage); NoBaggage
\* on the early return
MergeFinalBaggage(incomingBaggage, headerBaggageString) ==
  IF incomingBaggage = NoBaggage /\ Falsy(headerBaggageString)
    THEN Parsed(NoBaggage)
  ELSE LET headerBaggage ==
             IF Falsy(headerBaggageString) THEN Parsed(NoBaggage)
             ELSE parseBaggageString(headerBaggageString)
           thirdPartyHeaderBaggage ==
             IF headerBaggage.baggage = NoBaggage THEN Undefined
             ELSE getThirdPartyBaggage(headerBaggage.baggage)
       IN  IF ~headerBaggage.ok THEN ParseThrew
           ELSE Parsed(createBaggage(
                  IF incomingBaggage = NoBaggage THEN << >> ELSE incomingBaggage.obj,
                  IF Falsy(thirdPartyHeaderBaggage) THEN << >> ELSE thirdPartyHeaderBaggage))

mergeAndSerializeBaggage(incomingBaggage, headerBaggageString) ==
  LET final == MergeFinalBaggage(incomingBaggage, headerBaggageString)
  IN  IF ~final.ok THEN URIError
      ELSE IF final.baggage = NoBaggage THEN Returned(<< >>)
      ELSE Returned(serializeBaggage(final.baggage))

\* ------------------------------------------------------------------------
\* Inputs of the calls
\* ------------------------------------------------------------------------

MaxItems == 2

MaxSegs == 2

MaxSlack == 3

Sentry(rest) == SENTRY_BAGGAGE_KEY_PREFIX \o rest

\* keys and values a caller passes to createBaggage and setBaggageValue
KeyPool == { << "a" >>, << "a", "-", "b" >>, << "=" >> }

ValuePool == { << "1" >>, << "%", "," >> }

ItemLists ==
  { l \in UNION { [1..n -> KeyPool \X ValuePool] : n \in 0..MaxItems } :
      \A i, j \in 1..Len(l) : l[i][1] = l[j][1] => i = j }

\* one third-party entry of n characters
Pad(n) == << Run(n) >>

\* the shortest entry of the pools: sentry-a=1
ShortestEntry == Len(SENTRY_BAGGAGE_KEY_PREFIX) + 3

\* third-party strings that leave room for none, one or some of the entries,
\* and one that is over the limit by itself
LongStrings ==
  { Pad(MAX_BAGGAGE_STRING_LENGTH - ShortestEntry - d) : d \in 0..MaxSlack }
    \cup { Pad(MAX_BAGGAGE_STRING_LENGTH + 1) }

RemainderPool ==
  { Undefined, << >>, << "o", "=", "x" >>, Sentry(<< "x", "=", "1" >>) } \cup LongStrings

\* comma-separated segments of the raw headers given to parseBaggageString
SegPool ==
  { << >>,
    << "o", "=", "x" >>,
    << "f", "l", "a", "g" >>,
    Sentry(<< "a", "=", "1" >>),
    Sentry(<< "f" >>),
    Sentry(<< "k", "=", "a", "=", "b" >>),
    Sentry(<< "a", "-", "b", "=", "2" >>),
    Sentry(<< "%", "3", "D", "=", "%", "2", "5" >>),
    Sentry(<< "1", "=", "2" >>) }

\* a segment whose value is a malformed escape
BadSeg == Sentry(<< "a", "=", "%" >>)

RECURSIVE Join(_, _)
Join(segments, n) ==
  IF n = 0 THEN << >>
  ELSE IF n = 1 THEN segments[1]
  ELSE Join(segments, n - 1) \o << "," >> \o segments[n]

HeadersOf(pool) ==
  { Join(l, Len(l)) : l \in UNION { [1..n -> pool] : n \in 1..MaxSegs } }

HeaderPool ==
  HeadersOf(SegPool) \cup { BadSeg, << "o", "=", "x", "," >> \o BadSeg }

\* raw headers found on an outgoing request
MergeSegPool == { << "o", "=", "x" >>, Sentry(<< "a", "=", "2" >>) }

MergeHeaderPool ==
  HeadersOf(MergeSegPool)
    \cup { Undefined, << >>, BadSeg, Pad(MAX_BAGGAGE_STRING_LENGTH - ShortestEntry - 1) }

\* ------------------------------------------------------------------------
\* State
\* ------------------------------------------------------------------------

VARIABLES
  baggage,        \* the Baggage the caller holds, or NoBaggage
  origin,         \* the call that produced it: "none", "create" or "parse"
  remArg,         \* the baggageString argument of that createBaggage call
  lastCall,       \* the function called last
  input,          \* the raw header given to the last parse or merge call
  incomingGiven,  \* whether the last merge call was given the Baggage
  output,         \* what the last call returned as a string, or its throw
  finalBaggage    \* finalBaggage of the last merge call

bvars == << baggage, origin, remArg, lastCall, input, incomingGiven, output, finalBaggage >>

\* the trace-context correlator of one document
VARIABLES
  marker,         \* the sentry-trace <meta> of the page, or NoMarker
  ops,            \* the operations started so far, the current one last
  active,         \* whether the current operation has not ended
  pending,        \* spans being created: their parent is read, they are not yet recorded
  spans           \* the spans recorded, in order

cvars == << marker, ops, active, pending, spans >>

vars == << bvars, cvars >>

NoOutput == Returned(Undefined)

InitBaggage ==
  /\ baggage = NoBaggage
  /\ origin = "none"
  /\ remArg = Undefined
  /\ lastCall = "none"
  /\ input = Undefined
  /\ incomingGiven = FALSE
  /\ output = NoOutput
  /\ finalBaggage = NoBaggage

\* One propagation: the caller obtains its Baggage once, from createBaggage
\* or from parseBaggageString, then sets values, serializes and merges.  A
\* call is made when the caller has taken the result of the call before it.
Idle == lastCall = "none"

CreateBaggage ==
  /\ Idle
  /\ baggage = NoBaggage
  /\ \E initItems \in ItemLists, baggageString \in RemainderPool :
       /\ baggage' = createBaggage(initItems, baggageString)
       /\ remArg' = baggageString
  /\ origin' = "create"
  /\ lastCall' = "createBaggage"
  /\ UNCHANGED << input, incomingGiven, output, finalBaggage, cvars >>

SetBaggageValue ==
  /\ Idle
  /\ baggage # NoBaggage
  /\ \E key \in KeyPool, value \in ValuePool :
       /\ HasKey(baggage.obj, key) \/ Len(baggage.obj) < MaxItems
       /\ baggage' = setBaggageValue(baggage, key, value)
  /\ lastCall' = "setBaggageValue"
  /\ UNCHANGED << origin, remArg, input, incomingGiven, output, finalBaggage, cvars >>

SerializeBaggage ==
  /\ Idle
  /\ baggage # NoBaggage
  /\ output' = Returned(serializeBaggage(baggage))
  /\ lastCall' = "serializeBaggage"
  /\ UNCHANGED << baggage, origin, remArg, input, incomingGiven, finalBaggage, cvars >>

ParseBaggageString ==
  /\ Idle
  /\ baggage = NoBaggage
  /\ \E inputBaggageString \in HeaderPool :
       LET r == parseBaggageString(inputBaggageString)
       IN  /\ baggage' = r.baggage
           /\ origin' = IF r.ok THEN "parse" ELSE origin
           /\ output' = IF r.ok THEN NoOutput ELSE URIError
           /\ input' = inputBaggageString
  /\ lastCall' = "parseBaggageString"
  /\ UNCHANGED << remArg, incomingGiven, finalBaggage, cvars >>

MergeAndSerializeBaggage ==
  /\ Idle
  /\ \E given \in BOOLEAN, headerBaggageString \in MergeHeaderPool :
       LET incomingBaggage == IF given THEN baggage ELSE NoBaggage
       IN  /\ given => baggage # NoBaggage
           /\ output' = mergeAndSerializeBaggage(incomingBaggage, headerBaggageString)
           /\ finalBaggage' = MergeFinalBaggage(incomingBaggage, headerBaggageString).baggage
           /\ input' = headerBaggageString
           /\ incomingGiven' = given
  /\ lastCall' = "mergeAndSerializeBaggage"
  /\ UNCHANGED << baggage, origin, remArg, cvars >>

\* the caller takes the result; the Baggage stays with it
Return ==
  /\ ~Idle
  /\ lastCall' = "none"
  /\ input' = Undefined
  /\ incomingGiven' = FALSE
  /\ output' = NoOutput
  /\ finalBaggage' = NoBaggage
  /\ UNCHANGED << baggage, origin, remArg, cvars >>

Next ==
  \/ CreateBaggage
  \/ SetBaggageValue
  \/ SerializeBaggage
  \/ ParseBaggageString
  \/ MergeAndSerializeBaggage
  \/ Return

\* ------------------------------------------------------------------------
\* The trace-context correlator
\* ------------------------------------------------------------------------

MaxOps == 3

MaxSpans == 3

NumIds == 2

\* the content of the page's sentry-trace <meta>, as the tests expect it
MetaTraceId == "12312012123120121231201212312012"

MetaParentSpanId == "1121201211212012"

IdNames == << "id1", "id2", "id3", "id4", "id5", "id6" >>

\* what the id generator can return
GeneratedIds == { IdNames[i] : i \in 1..NumIds }

TraceIdPool == { MetaTraceId } \cup GeneratedIds

SpanIdPool == { MetaParentSpanId } \cup GeneratedIds

NoId == "<none>"

NoMarker == [traceId |-> NoId, parentSpanId |-> NoId]

PageMarker == [traceId |-> MetaTraceId, parentSpanId |-> MetaParentSpanId]

UsedTraceIds(started) == { started[i].traceId : i \in 1..Len(started) }

UsedSpanIds(started, m) == { started[i].spanId : i \in 1..Len(started) } \cup { m.parentSpanId }

\* a freshly generated trace id is none of those in use
FreshTraceIds(started) == TraceIdPool \ UsedTraceIds(started)

FreshSpanIds(started, m) == SpanIdPool \ UsedSpanIds(started, m)

\* the pageload operation: it continues the trace of the marker, if any
PageloadOperation(m, traceId, spanId) ==
  [kind |-> "pageload",
   traceId |-> IF m = NoMarker THEN traceId ELSE m.traceId,
   spanId |-> spanId,
   parentSpanId |-> m.parentSpanId]

\* a navigation that continues the trace of the marker, as the pageload does
NavigationOperationInherits(m, traceId, spanId) ==
  [kind |-> "navigation",
   traceId |-> IF m = NoMarker THEN traceId ELSE m.traceId,
   spanId |-> spanId,
   parentSpanId |-> m.parentSpanId]

\* a navigation operation: a trace of its own, and no parent
NavigationOperation(m, traceId, spanId) ==
  [kind |-> "navigation", traceId |-> traceId, spanId |-> spanId, parentSpanId |-> NoId]

\* a span that takes the root span of the pageload for parent
ChildSpanOfPageload(started, n) == [parentSpanId |-> started[1].spanId, op |-> n]

\* the parent of a span created under an operation: the operation's root span
ChildSpan(started, n) == [parentSpanId |-> started[n].spanId, op |-> n]

InitCorrelatorState(m) ==
  /\ marker = m
  /\ ops = << >>
  /\ active = FALSE
  /\ pending = << >>
  /\ spans = << >>

Init == InitBaggage /\ InitCorrelatorState(NoMarker)

InitCorrelator == InitBaggage /\ \E m \in { NoMarker, PageMarker } : InitCorrelatorState(m)

Spec == Init /\ [][Next]_vars

StartPageload ==
  /\ ops = << >>
  /\ \E traceId \in FreshTraceIds(ops), spanId \in FreshSpanIds(ops, marker) :
       ops' = << PageloadOperation(marker, traceId, spanId) >>
  /\ active' = TRUE
  /\ UNCHANGED << marker, pending, spans, bvars >>

StartNavigation ==
  /\ Len(ops) \in 1..(MaxOps - 1)
  /\ \E traceId \in FreshTraceIds(ops), spanId \in FreshSpanIds(ops, marker) :
       ops' = Append(ops, NavigationOperation(marker, traceId, spanId))
  /\ active' = TRUE
  /\ UNCHANGED << marker, pending, spans, bvars >>

\* the root span of the current operation completes
EndOperation ==
  /\ active
  /\ active' = FALSE
  /\ UNCHANGED << marker, ops, pending, spans, bvars >>

\* a span is created under the current operation: its parent is read
BeginSpan ==
  /\ active
  /\ Len(pending) + Len(spans) < MaxSpans
  /\ pending' = Append(pending, ChildSpan(ops, Len(ops)))
  /\ UNCHANGED << marker, ops, active, spans, bvars >>

\* a span being created is recorded, in any order
RecordSpan ==
  /\ \E i \in 1..Len(pending) :
       /\ spans' = Append(spans, pending[i])
       /\ pending' = SubSeq(pending, 1, i - 1) \o SubSeq(pending, i + 1, Len(pending))
  /\ UNCHANGED << marker, ops, active, bvars >>

NextCorrelator ==
  \/ StartPageload
  \/ StartNavigation
  \/ EndOperation
  \/ BeginSpan
  \/ RecordSpan

SpecCorrelator == InitCorrelator /\ [][NextCorrelator]_vars

\* ------------------------------------------------------------------------
\* Properties
\* ------------------------------------------------------------------------

Segments(s) == Split(s, ",")

HasEquals(seg) == \E i \in 1..Len(seg) : seg[i] = "="

FirstIndexOf(seg, c) == CHOOSE i \in 1..Len(seg) : seg[i] = c /\ \A j \in 1..(i - 1) : seg[j] # c

\* the text of a segment before and after its first "="
BeforeEquals(seg) == IF HasEquals(seg) THEN SubSeq(seg, 1, FirstIndexOf(seg, "=") - 1) ELSE seg

AfterEquals(seg) == SubSeq(seg, FirstIndexOf(seg, "=") + 1, Len(seg))

\* a segment whose key starts with the reserved prefix
IsFirstParty(seg) == StartsWith(BeforeEquals(seg), SENTRY_BAGGAGE_KEY_PREFIX)

NoFirstParty(s) == \A i \in 1..Len(Segments(s)) : ~IsFirstParty(Segments(s)[i])

\* the entry of one item on the wire
EntryOf(item) ==
  SENTRY_BAGGAGE_KEY_PREFIX \o encodeURIComponent(item[1]) \o << "=" >> \o encodeURIComponent(item[2])

WithEntry(prefix, entry) == IF prefix = << >> THEN entry ELSE prefix \o << "," >> \o entry

SameMapping(o1, o2) ==
  /\ \A i \in 1..Len(o1) : HasKey(o2, o1[i][1]) /\ ObjGet(o2, o1[i][1]) = o1[i][2]
  /\ \A i \in 1..Len(o2) : HasKey(o1, o2[i][1])

Max(a, b) == IF a >= b THEN a ELSE b

Serialized == lastCall = "serializeBaggage"

ParsedOk == lastCall = "parseBaggageString" /\ output.ok

Merged == lastCall = "mergeAndSerializeBaggage"

\* C1: parsing the serialization of a Baggage made of items alone gives the
\* same mapping back, and an empty third-party remainder.
C1_RoundTrip ==
  (Serialized /\ baggage.str = << >>) =>
    LET r == parseBaggageString(output.str)
    IN  /\ r.ok
        /\ SameMapping(r.baggage.obj, baggage.obj)
        /\ r.baggage.str = << >>

\* C2: a header with no first-party segment, parsed and serialized again, is
\* the header, character for character.
C2_ThirdPartyPreserved ==
  (ParsedOk /\ NoFirstParty(input)) => serializeBaggage(baggage) = input

\* C3: the serialization is never longer than MAX_BAGGAGE_STRING_LENGTH, and
\* the whole third-party remainder is in it.
C3_SizeBound ==
  Serialized =>
    /\ Length(output.str) <= MAX_BAGGAGE_STRING_LENGTH
    /\ StartsWith(output.str, baggage.str)

\* C3, amended: the whole third-party remainder starts the serialization, and
\* the serialization is no longer than the longer of the limit and the
\* remainder; so it is within the limit whenever the remainder is.
C3_SizeBoundAmended ==
  Serialized =>
    /\ StartsWith(output.str, baggage.str)
    /\ Length(output.str) <= Max(MAX_BAGGAGE_STRING_LENGTH, Length(baggage.str))

RECURSIVE NaiveLength(_, _)
NaiveLength(b, n) ==
  IF n = 0 THEN Length(b.str)
  ELSE Length(WithEntry(<< "," >>, EntryOf(b.obj[n]))) - 1 + NaiveLength(b, n - 1)

\* a Baggage within the limit by its remainder, over it with all its items
C3_Witness ==
  /\ Serialized
  /\ baggage.str # << >>
  /\ Length(baggage.str) <= MAX_BAGGAGE_STRING_LENGTH
  /\ NaiveLength(baggage, Len(baggage.obj)) > MAX_BAGGAGE_STRING_LENGTH
  /\ Length(output.str) > Length(baggage.str)

\* C4: the merge is the serialization of the incoming items with the
\* third-party remainder of the header: the remainder starts it unchanged,
\* every first-party entry in it is an entry of an incoming item, without
\* incoming it is the remainder alone, without both it is empty.
C4_Merge ==
  Merged =>
    LET items == IF incomingGiven THEN baggage.obj ELSE << >>
        header == IF Falsy(input) THEN Parsed([obj |-> << >>, str |-> << >>])
                  ELSE parseBaggageString(input)
        third == header.baggage.str
        segs == Segments(output.str)
    IN  IF ~header.ok THEN output = URIError
        ELSE /\ output.ok
             /\ output.str = serializeBaggage(createBaggage(items, third))
             /\ StartsWith(output.str, third)
             /\ \A i \in 1..Len(segs) :
                  IsFirstParty(segs[i]) => \E j \in 1..Len(items) : segs[i] = EntryOf(items[j])
             /\ Cardinality({ i \in 1..Len(segs) : IsFirstParty(segs[i]) }) <= Len(items)
             /\ ~incomingGiven => output.str = third
             /\ (~incomingGiven /\ Falsy(input)) => output.str = << >>

\* a merge of a Baggage that has items and a remainder of its own with a
\* header that has a first-party and a third-party entry
C4_Witness ==
  /\ Merged
  /\ output.ok
  /\ incomingGiven
  /\ Len(baggage.obj) > 0
  /\ baggage.str # << >>
  /\ input # Undefined
  /\ ~NoFirstParty(input)
  /\ finalBaggage.str # << >>
  /\ finalBaggage.str # baggage.str

CleanRemainder(b) == b # NoBaggage => NoFirstParty(b.str)

\* C7: no entry of the third-party remainder of any Baggage has a key that
\* starts with the reserved prefix.
C7_RemainderClean == CleanRemainder(baggage) /\ CleanRemainder(finalBaggage)

\* C7, amended: so it is for a Baggage that parseBaggageString returned,
\* whatever values are set on it, for the one the merge builds, and for one
\* that createBaggage was given a remainder without such an entry.
C7_RemainderCleanAmended ==
  /\ origin = "parse" => CleanRemainder(baggage)
  /\ (origin = "create" /\ NoFirstParty(IF remArg = Undefined THEN << >> ELSE remArg))
       => CleanRemainder(baggage)
  /\ CleanRemainder(finalBaggage)

\* a header with first-party and third-party entries was parsed
C7_Witness ==
  /\ ParsedOk
  /\ ~NoFirstParty(input)
  /\ Len(baggage.obj) > 0
  /\ baggage.str # << >>

NoEqualsSegment(seg) == seg # << >> /\ ~HasEquals(seg)

KeyedFirstParty(seg) == HasEquals(seg) /\ IsFirstParty(seg)

\* C8: a segment without "=" is a third-party entry: the segments without
\* "=" are in the remainder, as they are and in their order, and the mapping
\* has no more keys than the header has first-party segments with "=".
C8_NoEqualsIsThirdParty ==
  ParsedOk =>
    /\ SelectSeq(Segments(baggage.str), NoEqualsSegment)
         = SelectSeq(Segments(input), NoEqualsSegment)
    /\ Len(baggage.obj) <= Len(SelectSeq(Segments(input), KeyedFirstParty))

\* C9: the value stored for a first-party segment is the decoded text after
\* its first "=", all of it; of several segments with one key the last is
\* stored.  (Keys with a "-" in them are left to C1.)
C9_SplitOnFirstEquals ==
  ParsedOk =>
    LET segs == Segments(input)
        keyOf(seg) == SubSeq(BeforeEquals(seg), Len(SENTRY_BAGGAGE_KEY_PREFIX) + 1, Len(BeforeEquals(seg)))
    IN  \A i \in 1..Len(segs) :
          ( /\ KeyedFirstParty(segs[i])
            /\ \A p \in 1..Len(keyOf(segs[i])) : keyOf(segs[i])[p] # "-"
            /\ decodeURIComponent(keyOf(segs[i])).ok
            /\ decodeURIComponent(AfterEquals(segs[i])).ok
            /\ \A j \in (i + 1)..Len(segs) :
                 ~(KeyedFirstParty(segs[j]) /\ keyOf(segs[j]) = keyOf(segs[i])) )
          => ObjGet(baggage.obj, decodeURIComponent(keyOf(segs[i])).str)
               = decodeURIComponent(AfterEquals(segs[i])).str

\* the remainder followed by the entries of the items of K, in order
RECURSIVE Kept(_, _, _)
Kept(b, K, n) ==
  IF n = 0 THEN b.str
  ELSE IF n \in K THEN WithEntry(Kept(b, K, n - 1), EntryOf(b.obj[n]))
  ELSE Kept(b, K, n - 1)

\* C10: the serialization is the remainder followed by the entries of the
\* items kept, in the order of the items; an item is left out exactly when
\* its entry, added to what is kept before it, passes the limit; items after
\* one left out are still kept when they fit.
C10_DropAndContinue ==
  Serialized =>
    /\ output.ok
    /\ \E K \in SUBSET (1..Len(baggage.obj)) :
         /\ output.str = Kept(baggage, K, Len(baggage.obj))
         /\ \A i \in 1..Len(baggage.obj) :
              i \in K <=>
                Length(WithEntry(Kept(baggage, K, i - 1), EntryOf(baggage.obj[i])))
                  <= MAX_BAGGAGE_STRING_LENGTH

\* the first item is left out and the second, after it, is kept
C10_Witness ==
  /\ Serialized
  /\ Len(baggage.obj) = 2
  /\ baggage.str # << >>
  /\ output.str = WithEntry(baggage.str, EntryOf(baggage.obj[2]))

AllSpans == { pending[i] : i \in 1..Len(pending) } \cup { spans[i] : i \in 1..Len(spans) }

\* C5: every span, recorded or being created, has for parent the root span of
\* the operation that was current when it was created, and the root span of
\* no other operation.
C5_ParentSpan ==
  \A s \in AllSpans :
    /\ s.op \in 1..Len(ops)
    /\ s.parentSpanId = ops[s.op].spanId
    /\ \A j \in 1..Len(ops) : j # s.op => s.parentSpanId # ops[j].spanId

\* a span of the pageload is recorded after a span of the navigation that
\* followed it
C5_Witness ==
  \E i, j \in 1..Len(spans) : i < j /\ spans[i].op = 2 /\ spans[j].op = 1

\* C6: with a marker on the page, the first operation is the pageload, of the
\* marker's trace and with the marker's span for parent; every later one is a
\* navigation, of another trace than the pageload's, and without parent.
C6_NavigationNotInfluenced ==
  (marker # NoMarker /\ Len(ops) > 0) =>
    /\ ops[1].kind = "pageload"
    /\ ops[1].traceId = marker.traceId
    /\ ops[1].parentSpanId = marker.parentSpanId
    /\ \A i \in 2..Len(ops) :
         /\ ops[i].kind = "navigation"
         /\ ops[i].traceId # ops[1].traceId
         /\ ops[i].parentSpanId = NoId

\* a navigation followed the pageload of a page with a marker
C6_Witness == marker = PageMarker /\ Len(ops) >= 2 /\ active

====
